---- MODULE Spec2Model ----
(***************************************************************************)
(* A state-machine model of src/main.rs (Rust book, chapter 15: smart      *)
(* pointers).  The six demonstration functions are translated statement    *)
(* by statement into instruction tables (Code); the actions below execute  *)
(* one instruction each on a call stack of lexical scopes and a heap of    *)
(* values, with the ownership rules the statements rely on: scope-exit     *)
(* drops in reverse declaration order, Rc strong/weak counts, RefCell      *)
(* borrow flags, Drop callbacks and Weak::upgrade.                         *)
(***************************************************************************)
EXTENDS Integers, Sequences, FiniteSets, TLC

VARIABLES
  stack,   \* the call stack: frames [fn, pc, scopes], main's first
  heap,    \* every value created so far, with its counts and borrow flag
  out,     \* the lines printed to standard output
  status,  \* "running", "exited", "panicked", "aborted" or "stack_overflow"
  build,   \* which source is compiled: "shipped", or one with disabled lines enabled
  calls    \* history: the <<caller, callee>> pairs of the calls made so far

vars == <<stack, heap, out, status, build, calls>>

(***************************************************************************)
(* Text.  A String is a sequence of one-character strings; formatted       *)
(* output is a sequence of such pieces.                                    *)
(***************************************************************************)
Digits == <<"0", "1", "2", "3", "4", "5", "6", "7", "8", "9">>

RECURSIVE FmtNat(_)
FmtNat(n) ==
  IF n < 10 THEN <<Digits[n + 1]>>
  ELSE FmtNat(n \div 10) \o <<Digits[(n % 10) + 1]>>

\* Display / Debug of an integer (i32, isize, usize).
FmtInt(n) == IF n < 0 THEN <<"-">> \o FmtNat(0 - n) ELSE FmtNat(n)

StrA == <<"a">>
StrStringValue == <<"S","t","r","i","n","g"," ","v","a","l","u","e">>
StrHelloWorld == <<"H","e","l","l","o"," ","w","o","r","l","d">>
StrMyString == <<"M","y","_","s","t","r","i","n","g">>

(***************************************************************************)
(* Handles: what a variable, a temporary or a field holds.                 *)
(*   own    owning value or Box<T>       rc     Rc<T>                      *)
(*   weak   Weak<T>                      amp    plain reference &T         *)
(*   ref    RefCell Ref guard            refmut RefCell RefMut guard       *)
(*   none   Option::None                 uninit declared, not yet assigned *)
(***************************************************************************)
H(k, id) == [k |-> k, id |-> id]

NoneH == H("none", 0)

\* A value on the heap or the stack.  alloc is "stack", "box" or "rc".
NewObj(alloc, v, link, fn) ==
  [alloc |-> alloc, kind |-> v.kind, cell |-> v.cell, fn |-> fn,
   strong |-> IF alloc = "rc" THEN 1 ELSE 0, weak |-> 0, borrow |-> 0,
   live |-> TRUE, drops |-> 0, num |-> v.num, str |-> v.str, link |-> link]

Val(kind, cell, num, str) == [kind |-> kind, cell |-> cell, num |-> num, str |-> str]

(***************************************************************************)
(* The program text.                                                       *)
(***************************************************************************)
FnBox == "using_box_to_point_to_data_on_the_heap"
FnDeref == "treating_smart_pointers_like_regular_references_with_deref_trait"
FnDrop == "running_code_on_cleanup_with_the_drop_trait"
FnRc == "rc_the_reference_counted_smart_pointer"
FnRefCell == "refcell_and_the_interior_mutability_pattern"
FnCycle == "reference_cycles_can_leak_memory"

Arg(f, x) == [f |-> f, x |-> x]

CallI(f, params, ln) == [op |-> "call", f |-> f, params |-> params, ln |-> ln]
RetI(ln) == [op |-> "ret", ln |-> ln]
EnterI(ln) == [op |-> "enter", ln |-> ln]
ExitI(ln) == [op |-> "exit", ln |-> ln]
PrintI(fmt, args, ln) == [op |-> "print", fmt |-> fmt, args |-> args, ln |-> ln]
\* op is "let" (a value in the frame), "box_new" (Box::new) or "rc_new"
\* (Rc::new); y names a binding moved into the value's field ("" for none),
\* cp a Copy integer whose value is copied ("" for none).
NewI(op, x, v, y, cp, ln) == [op |-> op, x |-> x, v |-> v, y |-> y, cp |-> cp, ln |-> ln]
\* op x, y: rc_clone, downgrade, upgrade, borrow, borrow_mut bind x from y;
\* push/pop act through guard x; mem_drop and decl act on x.
OpI(op, x, y, ln) == [op |-> op, x |-> x, y |-> y, ln |-> ln]

\* Mutant of CodeMain: two calls exchanged.
CodeMainReordered ==
  << CallI(FnBox, <<>>, 10),
     CallI(FnDeref, <<>>, 11),
     CallI(FnRc, <<>>, 13),
     CallI(FnDrop, <<>>, 12),
     CallI(FnRefCell, <<>>, 14),
     CallI(FnCycle, <<>>, 15),
     RetI(16) >>

CodeMain ==
  << CallI(FnBox, <<>>, 10),
     CallI(FnDeref, <<>>, 11),
     CallI(FnDrop, <<>>, 12),
     CallI(FnRc, <<>>, 13),
     CallI(FnRefCell, <<>>, 14),
     CallI(FnCycle, <<>>, 15),
     RetI(16) >>

CodeBox ==
  << NewI("box_new", "my_box", Val("i32", FALSE, 123, <<>>), "", "", 21),
     PrintI("my_box: {}", <<Arg("display", "my_box")>>, 24),
     NewI("box_new", "_inner", Val("Hello", FALSE, 0, <<>>), "", "", 43),
     NewI("let", "my_hello", Val("Hello", FALSE, 0, <<>>), "_inner", "", 41),
     PrintI("my_hello.hello: {:?}", <<Arg("debug_field", "my_hello")>>, 51),
     NewI("box_new", "_null", Val("HelloEnum", FALSE, 0, <<>>), "", "", 62),
     NewI("let", "my_hello", Val("HelloEnum", FALSE, 0, <<>>), "_null", "", 61),
     PrintI("my_hello: {:?}", <<Arg("debug", "my_hello")>>, 67),
     RetI(68) >>

CodeDeref ==
  << NewI("let", "x", Val("i32", FALSE, 5, <<>>), "", "", 75),
     NewI("box_new", "y", Val("i32", FALSE, 0, <<>>), "", "x", 76),
     PrintI("x: {} y: {}", <<Arg("display", "x"), Arg("display", "y")>>, 78),
     NewI("let", "custom_box", Val("CustomBox", FALSE, 5, <<>>), "", "", 97),
     PrintI("*custom_box: {} *(custom_box.deref()): {}",
            <<Arg("display", "custom_box"), Arg("display", "custom_box")>>, 103),
     EnterI(113),
     NewI("let", "_s", Val("String", FALSE, 0, StrMyString), "", "", 113),
     CallI("hello_world", << <<"str", "_s">> >>, 113),
     ExitI(113),
     RetI(120) >>

CodeHelloWorld ==
  << PrintI("str: {str}", <<Arg("display", "str")>>, 106),
     RetI(107) >>

CodeDrop ==
  << PrintI("Before scope", <<>>, 138),
     EnterI(139),
     NewI("let", "square_one", Val("Square", FALSE, 5, <<>>), "", "", 142),
     NewI("let", "square_two", Val("Square", FALSE, 1, <<>>), "", "", 146),
     PrintI("squares created {:?} {:?}",
            <<Arg("debug", "square_one"), Arg("debug", "square_two")>>, 150),
     ExitI(151),
     PrintI("After scope", <<>>, 152),
     NewI("let", "square_three", Val("Square", FALSE, 2, <<>>), "", "", 154),
     PrintI("Before square_three dropped", <<>>, 162),
     OpI("mem_drop", "square_three", "", 163),
     PrintI("After square_three dropped", <<>>, 164),
     RetI(165) >>

CodeRc ==
  << NewI("rc_new", "a", Val("String", FALSE, 0, StrStringValue), "", "", 178),
     OpI("rc_clone", "b", "a", 183),
     OpI("rc_clone", "c", "a", 184),
     PrintI("a: {} b: {} c: {}",
            <<Arg("display", "a"), Arg("display", "b"), Arg("display", "c")>>, 186),
     PrintI("ref count: {}", <<Arg("strong_count", "a")>>, 190),
     RetI(194) >>

\* Mutant of CodePrint: the RefMut is kept in a local instead of being a
\* temporary of the push statement.
CodePrintGuardHeld ==
  << OpI("borrow_mut", "_m", "self", 224),
     OpI("push", "_m", "b", 224),
     EnterI(225),
     OpI("borrow", "_r", "self", 225),
     PrintI("string: {}", <<Arg("display", "_r")>>, 225),
     ExitI(225),
     RetI(226) >>

\* Hello::print, the body of impl World for Hello.
CodePrint ==
  << EnterI(224),
     OpI("borrow_mut", "_m", "self", 224),
     OpI("push", "_m", "b", 224),
     ExitI(224),
     EnterI(225),
     OpI("borrow", "_r", "self", 225),
     PrintI("string: {}", <<Arg("display", "_r")>>, 225),
     ExitI(225),
     RetI(226) >>

CodeRefCellBody ==
  << NewI("let", "hello", Val("String", TRUE, 0, StrA), "", "", 229),
     CallI("print", << <<"self", "hello">> >>, 233),
     NewI("rc_new", "my_item", Val("String", TRUE, 0, StrHelloWorld), "", "", 238),
     OpI("rc_clone", "ref_two", "my_item", 240),
     OpI("rc_clone", "ref_three", "my_item", 241),
     EnterI(243),
     OpI("borrow", "_r", "my_item", 243),
     PrintI("No changes: {}", <<Arg("display", "_r")>>, 243),
     ExitI(243),
     EnterI(245),
     OpI("borrow_mut", "_m", "ref_two", 245),
     OpI("pop", "_m", "", 245),
     ExitI(245),
     EnterI(246),
     OpI("borrow", "_r", "my_item", 246),
     PrintI("popped: {}", <<Arg("display", "_r")>>, 246),
     ExitI(246),
     EnterI(248),
     OpI("borrow_mut", "_m", "ref_three", 248),
     OpI("pop", "_m", "", 248),
     ExitI(248),
     EnterI(249),
     OpI("borrow", "_r", "my_item", 249),
     PrintI("popped: {}", <<Arg("display", "_r")>>, 249),
     ExitI(249) >>

\* The two statements the source keeps commented out (lines 253-254).
CodeDisabledLines ==
  << OpI("borrow_mut", "first_one", "ref_two", 253),
     OpI("borrow_mut", "crash", "ref_three", 254) >>

CodeRefCell(b) ==
  CodeRefCellBody
    \o (IF b = "lines_253_254" THEN CodeDisabledLines ELSE <<>>)
    \o <<RetI(255)>>

\* Mutant of CodeCycleNodes: first.hello is left None, so no cycle.
CodeCycleNodesAcyclic ==
  << NewI("rc_new", "first", Val("MemLeak", TRUE, 0, <<>>), "", "", 268),
     OpI("rc_clone", "_c", "first", 279),
     NewI("rc_new", "second", Val("MemLeak", TRUE, 0, <<>>), "_c", "", 276),
     EnterI(285),
     OpI("borrow_mut", "_m", "first", 285),
     ExitI(285) >>

\* Lines 268-285: the two nodes and the cycle.
CodeCycleNodes ==
  << NewI("rc_new", "first", Val("MemLeak", TRUE, 0, <<>>), "", "", 268),
     OpI("rc_clone", "_c", "first", 279),
     NewI("rc_new", "second", Val("MemLeak", TRUE, 0, <<>>), "_c", "", 276),
     EnterI(285),
     OpI("borrow_mut", "_m", "first", 285),
     OpI("rc_clone", "_arg", "second", 285),
     OpI("replace", "_m", "_arg", 285),
     ExitI(285) >>

\* The statement the source keeps commented out (line 289).
CodeDisabledDebug ==
  << PrintI("first: {:?}", <<Arg("debug", "first")>>, 289) >>

\* Lines 298-310: the weak references.
CodeCycleWeak ==
  << OpI("decl", "weak_fails", "", 298),
     EnterI(299),
     NewI("rc_new", "pointer", Val("i32", FALSE, 5, <<>>), "", "", 300),
     OpI("downgrade", "weak_exists", "pointer", 301),
     OpI("downgrade", "weak_fails", "pointer", 302),
     EnterI(305),
     OpI("upgrade", "_up", "weak_exists", 305),
     PrintI("weak_exists: {:?}", <<Arg("debug_opt", "_up")>>, 305),
     ExitI(305),
     ExitI(306),
     EnterI(308),
     OpI("upgrade", "_up", "weak_fails", 308),
     PrintI("weak_fails: {:?}", <<Arg("debug_opt", "_up")>>, 308),
     ExitI(308),
     RetI(310) >>

CodeCycle(b) ==
  CodeCycleNodes
    \o (IF b = "line_289" THEN CodeDisabledDebug ELSE <<>>)
    \o CodeCycleWeak

Code(b, f) ==
  CASE f = "main" -> CodeMain
    [] f = FnBox -> CodeBox
    [] f = FnDeref -> CodeDeref
    [] f = "hello_world" -> CodeHelloWorld
    [] f = FnDrop -> CodeDrop
    [] f = FnRc -> CodeRc
    [] f = FnRefCell -> CodeRefCell(b)
    [] f = "print" -> CodePrint
    [] f = FnCycle -> CodeCycle(b)

(***************************************************************************)
(* Frames and scopes.  A frame is [fn, pc, scopes]; scopes is the stack of *)
(* open lexical blocks (a statement's temporaries live in a block of their *)
(* own, closed at the end of the statement); a block is the sequence of    *)
(* its bindings [name, h] in declaration order.                            *)
(***************************************************************************)
Top == stack[Len(stack)]

Instr == Code(build, Top.fn)[Top.pc]

SetTop(fr) == [stack EXCEPT ![Len(stack)] = fr]

Adv(fr) == [fr EXCEPT !.pc = @ + 1]

RECURSIVE Flatten(_)
Flatten(ss) == IF ss = <<>> THEN <<>> ELSE Head(ss) \o Flatten(Tail(ss))

Bindings(fr) == Flatten(fr.scopes)

Bound(fr, name) == \E i \in DOMAIN Bindings(fr) : Bindings(fr)[i].name = name

\* A name resolves to its latest declaration (shadowing, line 61).
Lookup(fr, name) ==
  LET bs == Bindings(fr)
      I == {i \in DOMAIN bs : bs[i].name = name}
      top == CHOOSE i \in I : \A j \in I : j <= i
  IN bs[top].h

Bind(fr, name, h) ==
  [fr EXCEPT !.scopes[Len(fr.scopes)] = Append(@, [name |-> name, h |-> h])]

Remove(s, i) == SubSeq(s, 1, i - 1) \o SubSeq(s, i + 1, Len(s))

\* A binding of the innermost block that is moved out of.
Unbind(fr, name) ==
  LET sc == fr.scopes[Len(fr.scopes)]
      I == {i \in DOMAIN sc : sc[i].name = name}
      top == CHOOSE i \in I : \A j \in I : j <= i
  IN [fr EXCEPT !.scopes[Len(fr.scopes)] = Remove(sc, top)]

\* Assignment to a variable declared earlier (weak_fails, line 302).
Assign(fr, name, h) ==
  [fr EXCEPT !.scopes =
     [i \in DOMAIN fr.scopes |->
        [j \in DOMAIN fr.scopes[i] |->
           IF fr.scopes[i][j].name = name
           THEN [name |-> name, h |-> h]
           ELSE fr.scopes[i][j]]]]

(***************************************************************************)
(* Formatting ({} and {:?}).                                               *)
(***************************************************************************)
RECURSIVE DebugObj(_, _)
DebugObj(hp, id) ==
  LET o == hp[id] IN
  CASE o.kind = "i32" -> FmtInt(o.num)
    [] o.kind = "CustomBox" -> FmtInt(o.num)
    [] o.kind = "String" -> <<"\"">> \o o.str \o <<"\"">>
    [] o.kind = "Square" -> <<"Square { side: ">> \o FmtInt(o.num) \o <<" }">>
    [] o.kind = "Hello" ->
         <<"Hello { hello: ">>
           \o (IF o.link.k = "none" THEN <<"None">>
               ELSE <<"Some(">> \o DebugObj(hp, o.link.id) \o <<")">>)
           \o <<" }">>
    [] o.kind = "HelloEnum" ->
         IF o.link.k = "none" THEN <<"Null">>
         ELSE <<"Hello(">> \o DebugObj(hp, o.link.id) \o <<")">>
    [] o.kind = "MemLeak" ->
         <<"RefCell { value: MemLeak { hello: ">>
           \o (IF o.link.k = "none" THEN <<"None">>
               ELSE <<"Some(">> \o DebugObj(hp, o.link.id) \o <<")">>)
           \o <<" } }">>

\* {:?} of an Option holding handle h.
DebugOpt(hp, h) ==
  IF h.k = "none" THEN <<"None">>
  ELSE <<"Some(">> \o DebugObj(hp, h.id) \o <<")">>

\* {} of the value behind a handle.
Display(hp, h) ==
  IF hp[h.id].kind = "String" THEN hp[h.id].str ELSE FmtInt(hp[h.id].num)

Render(hp, fr, a) ==
  LET h == Lookup(fr, a.x) IN
  CASE a.f = "display" -> Display(hp, h)
    [] a.f = "debug" -> DebugObj(hp, h.id)
    [] a.f = "debug_field" -> DebugOpt(hp, hp[h.id].link)
    [] a.f = "debug_opt" -> DebugOpt(hp, h)
    [] a.f = "strong_count" -> FmtInt(hp[h.id].strong)

Line(fmt, args) == [fmt |-> fmt, args |-> args]

\* Whether n links can be followed from value id.
RECURSIVE Follow(_, _, _)
Follow(hp, id, n) ==
  IF n = 0 THEN TRUE
  ELSE IF hp[id].link.k = "none" THEN FALSE
  ELSE Follow(hp, hp[id].link.id, n - 1)

\* The derived Debug recurses into every field: on a value that reaches
\* itself it never returns and exhausts the stack (comment at lines 287-288).
Diverges(hp, fr, a) ==
  a.f = "debug" /\ Follow(hp, Lookup(fr, a.x).id, Len(hp))

(***************************************************************************)
(* Ownership rules.  M is the pair [heap, out] a drop acts on.             *)
(***************************************************************************)
\* Mutant of StrongInc: the new handle is not counted.
StrongIncLost(hp, id) == hp

\* Rc::clone, and a successful Weak::upgrade.
StrongInc(hp, id) == [hp EXCEPT ![id].strong = @ + 1]

\* Mutant of WeakInc: a Weak counted as an owner.
WeakIncAsStrong(hp, id) == [hp EXCEPT ![id].strong = @ + 1]

\* Rc::downgrade.
WeakInc(hp, id) == [hp EXCEPT ![id].weak = @ + 1]

\* Mutant of CanUpgrade: upgrade never fails.
CanUpgradeAlways(hp, id) == TRUE

\* Weak::upgrade yields Some exactly when a strong handle is left.
CanUpgrade(hp, id) == hp[id].strong > 0

\* RefCell: borrow < 0 is an outstanding RefMut, borrow > 0 counts the Refs.
CanBorrow(o) == o.borrow >= 0

\* Mutant of CanBorrowMut: no runtime check.
CanBorrowMutUnchecked(o) == TRUE

CanBorrowMut(o) == o.borrow = 0

\* impl Drop for Square.
DropCallback(M, id) ==
  IF M.heap[id].kind = "Square"
  THEN [M EXCEPT !.out = Append(@, Line("Square {:?} dropped", <<DebugObj(M.heap, id)>>))]
  ELSE M

\* The value is destroyed when the strong count has reached zero.
LastStrong(n) == n = 0

RECURSIVE DropValue(_, _), DropHandle(_, _), RcRelease(_, _)

\* Dropping an Rc handle.
RcRelease(M, id) ==
  LET n == M.heap[id].strong - 1
      M1 == [M EXCEPT !.heap[id].strong = n]
  IN IF LastStrong(n) THEN DropValue(M1, id) ELSE M1

\* Destroying a value: its Drop callback, then its fields.
DropValue(M, id) ==
  LET M1 == DropCallback(M, id)
      M2 == [M1 EXCEPT !.heap[id].live = FALSE, !.heap[id].drops = @ + 1]
  IN DropHandle(M2, M.heap[id].link)

DropHandle(M, h) ==
  CASE h.k = "own" -> DropValue(M, h.id)
    [] h.k = "rc" -> RcRelease(M, h.id)
    [] h.k = "weak" -> [M EXCEPT !.heap[h.id].weak = @ - 1]
    [] h.k = "ref" -> [M EXCEPT !.heap[h.id].borrow = @ - 1]
    [] h.k = "refmut" -> [M EXCEPT !.heap[h.id].borrow = 0]
    [] OTHER -> M

\* Mutant of DropIndex: release in declaration order.
DropIndexFirst(sc) == 1

\* A block releases its bindings last-declared first.
DropIndex(sc) == Len(sc)

(***************************************************************************)
(* Initial state: main is entered.  build is "shipped" for the source as   *)
(* it is, "lines_253_254" or "line_289" for the source with one of its     *)
(* disabled demonstrations enabled.                                        *)
(***************************************************************************)
MainFrame == [fn |-> "main", pc |-> 1, scopes |-> << <<>> >>]

InitBuild(b) ==
  /\ build = b
  /\ stack = <<MainFrame>>
  /\ heap = <<>>
  /\ out = <<>>
  /\ status = "running"
  /\ calls = <<>>

Init == InitBuild("shipped")

InitBuilds == \E b \in {"shipped", "lines_253_254", "line_289"} : InitBuild(b)

Running(op) == status = "running" /\ Instr.op = op

(***************************************************************************)
(* Actions, one per kind of statement.                                     *)
(***************************************************************************)
\* A function call: the arguments are plain references to the caller's values.
Call ==
  /\ Running("call")
  /\ LET ps == Instr.params
         binds == [i \in DOMAIN ps |->
                     [name |-> ps[i][1], h |-> H("amp", Lookup(Top, ps[i][2]).id)]]
     IN stack' = Append(SetTop(Adv(Top)),
                        [fn |-> Instr.f, pc |-> 1, scopes |-> <<binds>>])
  /\ calls' = Append(calls, <<Top.fn, Instr.f>>)
  /\ UNCHANGED <<heap, out, status, build>>

AllocStep(op, alloc) ==
  /\ Running(op)
  /\ LET I == Instr
         v == IF I.cp = "" THEN I.v
              ELSE [I.v EXCEPT !.num = heap[Lookup(Top, I.cp).id].num]
         link == IF I.y = "" THEN NoneH ELSE Lookup(Top, I.y)
         fr1 == IF I.y = "" THEN Top ELSE Unbind(Top, I.y)
         h == H(IF alloc = "rc" THEN "rc" ELSE "own", Len(heap) + 1)
     IN /\ heap' = Append(heap, NewObj(alloc, v, link, Top.fn))
        /\ stack' = SetTop(Adv(Bind(fr1, I.x, h)))
  /\ UNCHANGED <<out, status, build, calls>>

\* let x = <value>;
Let == AllocStep("let", "stack")

\* Box::new
BoxNew == AllocStep("box_new", "box")

\* Rc::new
RcNew == AllocStep("rc_new", "rc")

\* Mutant of RcClone: the clone copies the value into a new allocation.
RcCloneDeepCopy ==
  /\ Running("rc_clone")
  /\ LET id == Lookup(Top, Instr.y).id
     IN /\ heap' = Append(heap, [heap[id] EXCEPT !.strong = 1, !.weak = 0, !.fn = Top.fn])
        /\ stack' = SetTop(Adv(Bind(Top, Instr.x, H("rc", Len(heap) + 1))))
  /\ UNCHANGED <<out, status, build, calls>>

\* Rc::clone(&y)
RcClone ==
  /\ Running("rc_clone")
  /\ LET id == Lookup(Top, Instr.y).id
     IN /\ heap' = StrongInc(heap, id)
        /\ stack' = SetTop(Adv(Bind(Top, Instr.x, H("rc", id))))
  /\ UNCHANGED <<out, status, build, calls>>

\* let mut x: Weak<i32>;
Decl ==
  /\ Running("decl")
  /\ stack' = SetTop(Adv(Bind(Top, Instr.x, H("uninit", 0))))
  /\ UNCHANGED <<heap, out, status, build, calls>>

\* Rc::downgrade(&y)
Downgrade ==
  /\ Running("downgrade")
  /\ LET id == Lookup(Top, Instr.y).id
         h == H("weak", id)
     IN /\ heap' = WeakInc(heap, id)
        /\ stack' = SetTop(Adv(IF Bound(Top, Instr.x)
                               THEN Assign(Top, Instr.x, h)
                               ELSE Bind(Top, Instr.x, h)))
  /\ UNCHANGED <<out, status, build, calls>>

\* y.upgrade()
Upgrade ==
  /\ Running("upgrade")
  /\ LET id == Lookup(Top, Instr.y).id
     IN IF CanUpgrade(heap, id)
        THEN /\ heap' = StrongInc(heap, id)
             /\ stack' = SetTop(Adv(Bind(Top, Instr.x, H("rc", id))))
        ELSE /\ heap' = heap
             /\ stack' = SetTop(Adv(Bind(Top, Instr.x, NoneH)))
  /\ UNCHANGED <<out, status, build, calls>>

\* y.borrow(): panics while a RefMut is outstanding.
Borrow ==
  /\ Running("borrow")
  /\ LET id == Lookup(Top, Instr.y).id
     IN IF CanBorrow(heap[id])
        THEN /\ heap' = [heap EXCEPT ![id].borrow = @ + 1]
             /\ stack' = SetTop(Adv(Bind(Top, Instr.x, H("ref", id))))
             /\ status' = status
        ELSE /\ status' = "panicked"
             /\ UNCHANGED <<heap, stack>>
  /\ UNCHANGED <<out, build, calls>>

\* y.borrow_mut(): panics while any borrow is outstanding.
BorrowMut ==
  /\ Running("borrow_mut")
  /\ LET id == Lookup(Top, Instr.y).id
     IN IF CanBorrowMut(heap[id])
        THEN /\ heap' = [heap EXCEPT ![id].borrow = -1]
             /\ stack' = SetTop(Adv(Bind(Top, Instr.x, H("refmut", id))))
             /\ status' = status
        ELSE /\ status' = "panicked"
             /\ UNCHANGED <<heap, stack>>
  /\ UNCHANGED <<out, build, calls>>

\* String::push through a RefMut
Push ==
  /\ Running("push")
  /\ heap' = [heap EXCEPT ![Lookup(Top, Instr.x).id].str = Append(@, Instr.y)]
  /\ stack' = SetTop(Adv(Top))
  /\ UNCHANGED <<out, status, build, calls>>

\* String::pop through a RefMut
Pop ==
  /\ Running("pop")
  /\ heap' = [heap EXCEPT ![Lookup(Top, Instr.x).id].str =
                IF @ = <<>> THEN @ ELSE SubSeq(@, 1, Len(@) - 1)]
  /\ stack' = SetTop(Adv(Top))
  /\ UNCHANGED <<out, status, build, calls>>

\* Option::replace on the hello field, through a RefMut: the argument moves
\* in, the old field value comes back as a temporary.
Replace ==
  /\ Running("replace")
  /\ LET id == Lookup(Top, Instr.x).id
         new == Lookup(Top, Instr.y)
     IN /\ heap' = [heap EXCEPT ![id].link = new]
        /\ stack' = SetTop(Adv(Bind(Unbind(Top, Instr.y), "_old", heap[id].link)))
  /\ UNCHANGED <<out, status, build, calls>>

\* println!
Println ==
  /\ Running("print")
  /\ IF \E i \in DOMAIN Instr.args : Diverges(heap, Top, Instr.args[i])
     THEN /\ status' = "stack_overflow"
          /\ UNCHANGED <<out, stack>>
     ELSE /\ out' = Append(out, Line(Instr.fmt,
                 [i \in DOMAIN Instr.args |-> Render(heap, Top, Instr.args[i])]))
          /\ stack' = SetTop(Adv(Top))
          /\ status' = status
  /\ UNCHANGED <<heap, build, calls>>

\* Mutant of MemDrop: the value is released but the variable still owns it.
MemDropKeepsBinding ==
  /\ Running("mem_drop")
  /\ LET M == DropHandle([heap |-> heap, out |-> out], Lookup(Top, Instr.x))
     IN /\ heap' = M.heap
        /\ out' = M.out
  /\ stack' = SetTop(Adv(Top))
  /\ UNCHANGED <<status, build, calls>>

\* std::mem::drop(x): x moves into drop and is released there.
MemDrop ==
  /\ Running("mem_drop")
  /\ LET M == DropHandle([heap |-> heap, out |-> out], Lookup(Top, Instr.x))
     IN /\ heap' = M.heap
        /\ out' = M.out
  /\ stack' = SetTop(Adv(Unbind(Top, Instr.x)))
  /\ UNCHANGED <<status, build, calls>>

\* {
Enter ==
  /\ Running("enter")
  /\ stack' = SetTop(Adv([Top EXCEPT !.scopes = Append(@, <<>>)]))
  /\ UNCHANGED <<heap, out, status, build, calls>>

\* } with a binding left in the block: release the next one.
ScopeDrop ==
  /\ status = "running"
  /\ Instr.op \in {"exit", "ret"}
  /\ Top.scopes[Len(Top.scopes)] # <<>>
  /\ LET sc == Top.scopes[Len(Top.scopes)]
         i == DropIndex(sc)
         M == DropHandle([heap |-> heap, out |-> out], sc[i].h)
     IN /\ heap' = M.heap
        /\ out' = M.out
        /\ stack' = SetTop([Top EXCEPT !.scopes[Len(Top.scopes)] = Remove(sc, i)])
  /\ UNCHANGED <<status, build, calls>>

\* } with the block empty: the block is closed.
ScopeEnd ==
  /\ Running("exit")
  /\ Top.scopes[Len(Top.scopes)] = <<>>
  /\ stack' = SetTop(Adv([Top EXCEPT !.scopes = SubSeq(@, 1, Len(@) - 1)]))
  /\ UNCHANGED <<heap, out, status, build, calls>>

\* The end of a function body, all locals released.
Return ==
  /\ Running("ret")
  /\ Top.scopes[Len(Top.scopes)] = <<>>
  /\ stack' = SubSeq(stack, 1, Len(stack) - 1)
  /\ status' = IF Len(stack) = 1 THEN "exited" ELSE status
  /\ UNCHANGED <<heap, out, build, calls>>

\* A panic unwinds the stack, releasing every local, and aborts the process.
Unwind ==
  /\ status = "panicked"
  /\ IF stack = <<>>
     THEN /\ status' = "aborted"
          /\ UNCHANGED <<stack, heap, out>>
     ELSE LET sc == Top.scopes[Len(Top.scopes)] IN
          IF sc # <<>>
          THEN LET M == DropHandle([heap |-> heap, out |-> out], sc[Len(sc)].h)
               IN /\ heap' = M.heap
                  /\ out' = M.out
                  /\ stack' = SetTop([Top EXCEPT !.scopes[Len(Top.scopes)] =
                                        Remove(sc, Len(sc))])
                  /\ status' = status
          ELSE /\ stack' = IF Len(Top.scopes) > 1
                           THEN SetTop([Top EXCEPT !.scopes = SubSeq(@, 1, Len(@) - 1)])
                           ELSE SubSeq(stack, 1, Len(stack) - 1)
               /\ UNCHANGED <<heap, out, status>>
  /\ UNCHANGED <<build, calls>>

Next ==
  \/ Call
  \/ Let
  \/ BoxNew
  \/ RcNew
  \/ RcClone
  \/ Decl
  \/ Downgrade
  \/ Upgrade
  \/ Borrow
  \/ BorrowMut
  \/ Push
  \/ Pop
  \/ Replace
  \/ Println
  \/ MemDrop
  \/ Enter
  \/ ScopeDrop
  \/ ScopeEnd
  \/ Return

\* The program as shipped.
Spec == Init /\ [][Next]_vars

\* A sequential program always takes its next step.
FairSpec == Spec /\ WF_vars(Next)

NextBuilds == Next \/ Unwind

\* The program as shipped, and the program with one of its disabled
\* demonstrations (lines 253-254, line 289) enabled.
BuildsSpec == InitBuilds /\ [][NextBuilds]_vars

(***************************************************************************)
(* Vocabulary of the properties.                                           *)
(***************************************************************************)
\* The function f is about to execute its statement op of source line ln.
At(f, ln, op) ==
  /\ status = "running"
  /\ stack # <<>>
  /\ Top.fn = f
  /\ Instr.op = op
  /\ Instr.ln = ln

OnStack(f) == \E i \in DOMAIN stack : stack[i].fn = f

\* Every binding <<frame, position>> of the call stack.
AllBindings ==
  UNION {{<<f, i>> : i \in DOMAIN Bindings(stack[f])} : f \in DOMAIN stack}

HandleAt(p) == Bindings(stack[p[1]])[p[2]].h

NameAt(p) == Bindings(stack[p[1]])[p[2]].name

\* The live handles of kind k on value id: variables and temporaries, and
\* fields of values not yet destroyed.
HandleCount(k, id) ==
  Cardinality({p \in AllBindings : HandleAt(p) = H(k, id)})
    + Cardinality({o \in DOMAIN heap : heap[o].live /\ heap[o].link = H(k, id)})

RcObjs == {id \in DOMAIN heap : heap[id].alloc = "rc"}

ObjsOf(f, kind) == {id \in DOMAIN heap : heap[id].fn = f /\ heap[id].kind = kind}

HasLine(fmt) == \E i \in DOMAIN out : out[i].fmt = fmt

LinesOf(fmt) == {i \in DOMAIN out : out[i].fmt = fmt}

FirstLine(fmt) == CHOOSE i \in LinesOf(fmt) : \A j \in LinesOf(fmt) : i <= j

LastLine(fmt) == CHOOSE i \in LinesOf(fmt) : \A j \in LinesOf(fmt) : j <= i

SquareText(n) == <<"Square { side: ", n, " }">>

DropLine(n) == Line("Square {:?} dropped", <<SquareText(n)>>)

(***************************************************************************)
(* C1                                                                      *)
(***************************************************************************)
\* C1: the strong count of every Rc value equals the number of its live
\* owning handles (so it is 1 after Rc::new, one more after each Rc::clone,
\* one less after each release), and the value is destroyed exactly when
\* the count is zero, once.  In rc_the_reference_counted_smart_pointer the
\* count printed is 3, and the String lives while a, b or c is held and has
\* been destroyed once when the function has released all three.
C1_StrongCountIsHandleCount ==
  /\ \A id \in RcObjs :
       /\ heap[id].strong = HandleCount("rc", id)
       /\ heap[id].live <=> heap[id].strong > 0
       /\ heap[id].drops = IF heap[id].live THEN 0 ELSE 1
  /\ \A i \in LinesOf("ref count: {}") : out[i].args = << <<"3">> >>
  /\ At(FnRc, 190, "print") =>
       \A id \in ObjsOf(FnRc, "String") : HandleCount("rc", id) = 3
  /\ \A id \in ObjsOf(FnRc, "String") :
       /\ (OnStack(FnRc) /\ Bindings(Top) # <<>>) => heap[id].live
       /\ ~OnStack(FnRc) =>
            HasLine("ref count: {}") /\ heap[id].drops = 1 /\ heap[id].strong = 0

C1_Witness ==
  /\ status = "exited"
  /\ HasLine("ref count: {}")
  /\ \E id \in ObjsOf(FnRc, "String") : heap[id].drops = 1 /\ heap[id].strong = 0

(***************************************************************************)
(* C2                                                                      *)
(***************************************************************************)
\* The value behind the Weak that the statement about to run upgrades.
UpgradeTarget == Lookup(Top, Instr.y).id

\* C2, each upgrade: the result is Some exactly when a strong handle on the
\* value is live at the call.
C2_UpgradeStep ==
  Running("upgrade") =>
    (Lookup(Top', Instr.x).k = "rc") = (HandleCount("rc", UpgradeTarget) > 0)

C2_UpgradePoints ==
  /\ At(FnCycle, 305, "upgrade") =>
       /\ Bound(Top, "pointer")
       /\ HandleCount("rc", UpgradeTarget) = 1
  /\ At(FnCycle, 308, "upgrade") =>
       /\ ~Bound(Top, "pointer")
       /\ HandleCount("rc", UpgradeTarget) = 0
       /\ ~heap[UpgradeTarget].live
  /\ \A i \in LinesOf("weak_exists: {:?}") : out[i].args = << <<"Some(", "5", ")">> >>
  /\ \A i \in LinesOf("weak_fails: {:?}") : out[i].args = << <<"None">> >>
  /\ status = "exited" => HasLine("weak_exists: {:?}") /\ HasLine("weak_fails: {:?}")

\* C2: upgrading a weak reference yields the value exactly while a strong
\* handle to it is live and yields nothing afterwards.  In
\* reference_cycles_can_leak_memory weak_exists.upgrade() runs while pointer
\* is held and prints Some(5); weak_fails.upgrade() runs after the inner
\* block has released pointer, the only strong handle, and prints None.
C2_UpgradeWhileStrong == [][C2_UpgradeStep]_vars /\ []C2_UpgradePoints

C2_Witness ==
  /\ HasLine("weak_exists: {:?}")
  /\ HasLine("weak_fails: {:?}")
  /\ out[LastLine("weak_fails: {:?}")].args = << <<"None">> >>

(***************************************************************************)
(* C3                                                                      *)
(***************************************************************************)
\* C3, each release at a block's end: the binding released is the one
\* declared last among those the block still holds.
C3_ReleaseStep ==
  (/\ status = "running"
   /\ Instr.op \in {"exit", "ret"}
   /\ Top.scopes[Len(Top.scopes)] # <<>>)
  => LET sc == Top.scopes[Len(Top.scopes)]
     IN /\ Len(stack') = Len(stack)
        /\ Top'.scopes[Len(Top.scopes)] = SubSeq(sc, 1, Len(sc) - 1)

C3_DropOutput ==
  /\ \A id \in DOMAIN heap : heap[id].drops <= 1
  /\ HasLine("After scope") =>
       SubSeq(out, FirstLine("Before scope"), FirstLine("Before scope") + 4) =
         << Line("Before scope", <<>>),
            Line("squares created {:?} {:?}", <<SquareText("5"), SquareText("1")>>),
            DropLine("1"),
            DropLine("5"),
            Line("After scope", <<>>) >>

\* C3: the values of a block are released at its end in the reverse order
\* of their declaration, each once.  In
\* running_code_on_cleanup_with_the_drop_trait the drop message of
\* square_two (side 1) comes first and that of square_one (side 5) second,
\* both after "squares created" and before "After scope".
C3_ReverseOrderRelease == [][C3_ReleaseStep]_vars /\ []C3_DropOutput

C3_Witness ==
  /\ HasLine("After scope")
  /\ out[FirstLine("Before scope") + 2] = DropLine("1")
  /\ out[FirstLine("Before scope") + 3] = DropLine("5")

(***************************************************************************)
(* C4                                                                      *)
(***************************************************************************)
Cells == {id \in DOMAIN heap : heap[id].cell}

\* C4: while refcell_and_the_interior_mutability_pattern runs, every RefCell
\* has either one RefMut and no Ref, or no RefMut and any number of Refs;
\* every borrow_mut() and borrow() is reached with no borrow of that cell
\* outstanding, and the function never panics.
C4_BorrowRule ==
  OnStack(FnRefCell) =>
    /\ status = "running"
    /\ \A id \in Cells :
         \/ /\ heap[id].borrow = -1
            /\ HandleCount("refmut", id) = 1
            /\ HandleCount("ref", id) = 0
         \/ /\ heap[id].borrow >= 0
            /\ HandleCount("refmut", id) = 0
            /\ HandleCount("ref", id) = heap[id].borrow
    /\ (Instr.op \in {"borrow", "borrow_mut"}) =>
         LET id == Lookup(Top, Instr.y).id
         IN /\ heap[id].borrow = 0
            /\ HandleCount("refmut", id) + HandleCount("ref", id) = 0

C4_Witness ==
  /\ At(FnRefCell, 248, "pop")
  /\ \E id \in Cells : heap[id].borrow = -1 /\ HandleCount("refmut", id) = 1

(***************************************************************************)
(* C5                                                                      *)
(***************************************************************************)
Nodes == ObjsOf(FnCycle, "MemLeak")

\* C5: in reference_cycles_can_leak_memory the two MemLeak nodes hold strong
\* handles to each other once line 285 has run; from then on, while the
\* locals first and second are held, both strong counts are 2; after the
\* function has released its locals both counts are 1; no node is ever
\* destroyed.
C5_CycleLeaks ==
  /\ \A id \in Nodes : heap[id].live /\ heap[id].drops = 0 /\ heap[id].strong >= 1
  /\ (OnStack(FnCycle) /\ Top.pc > Len(CodeCycleNodes) /\ Bound(Top, "second")) =>
       /\ Cardinality(Nodes) = 2
       /\ \A id \in Nodes :
            /\ heap[id].strong = 2
            /\ heap[id].link.k = "rc"
            /\ heap[id].link.id \in Nodes \ {id}
  /\ (Nodes # {} /\ ~OnStack(FnCycle)) =>
       /\ Cardinality(Nodes) = 2
       /\ \A id \in Nodes : heap[id].strong = 1 /\ HandleCount("rc", id) = 1

C5_Witness ==
  /\ status = "exited"
  /\ Cardinality(Nodes) = 2
  /\ \A id \in Nodes : heap[id].strong = 1 /\ heap[id].live

(***************************************************************************)
(* C6                                                                      *)
(***************************************************************************)
\* The frame of refcell_and_the_interior_mutability_pattern, when it is on
\* the stack.
RefCellFrame == stack[CHOOSE i \in DOMAIN stack : stack[i].fn = FnRefCell]

\* With lines 253-254 enabled the second borrow_mut() is reached with the
\* first RefMut outstanding on the same cell, it panics instead of
\* returning a guard, and main does not finish; a panic occurs nowhere
\* else, and never in the source as shipped.
C6_SecondBorrowMutPanics ==
  /\ status \in {"panicked", "aborted"} => build = "lines_253_254"
  /\ (status = "panicked" /\ OnStack(FnRefCell)) =>
       LET I == Code(build, FnRefCell)[RefCellFrame.pc]
       IN I.op = "borrow_mut" /\ I.ln = 254
  /\ At(FnRefCell, 254, "borrow_mut") =>
       /\ Lookup(Top, "first_one") = H("refmut", Lookup(Top, "ref_three").id)
       /\ Lookup(Top, "ref_two").id = Lookup(Top, "ref_three").id
  /\ build = "lines_253_254" =>
       /\ status # "exited"
       /\ \A p \in AllBindings : NameAt(p) # "crash"
  /\ build = "shipped" => status \in {"running", "exited"}

\* C6 as stated: the second borrow_mut() panics, and that panic is the only
\* failure the program demonstrates.
C6_OnlyFailureIsBorrowPanic ==
  /\ C6_SecondBorrowMutPanics
  /\ status \in {"running", "exited", "panicked", "aborted"}

\* C6 as amended: the second borrow_mut() panics; the one other failure the
\* program demonstrates is the stack overflow of the Debug print of the
\* cyclic first (line 289), which the source keeps disabled as well.
C6_FailuresDemonstrated ==
  /\ C6_SecondBorrowMutPanics
  /\ status \in {"running", "exited", "panicked", "aborted", "stack_overflow"}
  /\ status = "stack_overflow" =>
       /\ build = "line_289"
       /\ Top.fn = FnCycle
       /\ Instr.op = "print"
       /\ Instr.ln = 289
  /\ build = "line_289" => status # "exited"

C6_Witness ==
  /\ build = "lines_253_254"
  /\ status = "panicked"
  /\ Top.fn = FnRefCell
  /\ Instr.ln = 254
  /\ Bound(Top, "first_one")

(***************************************************************************)
(* C7                                                                      *)
(***************************************************************************)
Demonstrations ==
  << <<"main", FnBox>>, <<"main", FnDeref>>, <<"main", FnDrop>>,
     <<"main", FnRc>>, <<"main", FnRefCell>>, <<"main", FnCycle>> >>

CalledByMain(c) == c[1] = "main"

MainCalls == SelectSeq(calls, CalledByMain)

\* The demonstration that is running: the function main has called.
Demo == stack[2].fn

C7_Isolation ==
  /\ status \in {"running", "exited"}
  /\ Len(MainCalls) <= Len(Demonstrations)
  /\ MainCalls = SubSeq(Demonstrations, 1, Len(MainCalls))
  /\ status = "exited" => MainCalls = Demonstrations
  /\ Len(stack) <= 1 => AllBindings = {}
  /\ Len(stack) >= 2 =>
       /\ Demo = MainCalls[Len(MainCalls)][2]
       /\ \A p \in AllBindings :
            HandleAt(p).id # 0 => heap[HandleAt(p).id].fn = Demo

\* A step changes or creates only values of the running demonstration.
C7_LocalStep ==
  \A id \in DOMAIN heap' :
    (id \notin DOMAIN heap \/ heap'[id] # heap[id]) =>
      /\ Len(stack) >= 2
      /\ heap'[id].fn = Demo

\* C7: every run of main ends normally; main calls the six demonstrations
\* once each in the order box, deref, drop, rc, refcell, reference cycle;
\* none panics; every variable refers to a value created by the running
\* demonstration and every step changes only such values.
C7_MainTerminates ==
  /\ <>(status = "exited")
  /\ []C7_Isolation
  /\ [][C7_LocalStep]_vars

C7_Witness ==
  /\ status = "exited"
  /\ stack = <<>>
  /\ MainCalls = Demonstrations

(***************************************************************************)
(* C8                                                                      *)
(***************************************************************************)
Pointers == ObjsOf(FnCycle, "i32")

C8_WeakStep ==
  /\ Running("downgrade") =>
       LET id == Lookup(Top, Instr.y).id
       IN /\ heap'[id].strong = heap[id].strong
          /\ heap'[id].weak = heap[id].weak + 1
          /\ heap'[id].live = heap[id].live
  /\ Running("upgrade") =>
       LET id == UpgradeTarget
       IN /\ heap'[id].weak = heap[id].weak
          /\ heap'[id].strong =
               heap[id].strong + (IF Lookup(Top', Instr.x).k = "rc" THEN 1 ELSE 0)

C8_WeakPoints ==
  \A id \in Pointers :
    /\ heap[id].weak = HandleCount("weak", id)
    /\ At(FnCycle, 305, "upgrade") => heap[id].strong = 1 /\ heap[id].weak = 2
    /\ (heap[id].strong = 2) = (\E p \in AllBindings :
                                  NameAt(p) = "_up" /\ HandleAt(p) = H("rc", id))
    /\ At(FnCycle, 305, "print") => heap[id].strong = 2
    /\ (At(FnCycle, 306, "exit") /\ Bound(Top, "pointer")) => heap[id].strong = 1
    /\ (OnStack(FnCycle) /\ ~Bound(Top, "pointer")) =>
         /\ ~heap[id].live
         /\ heap[id].strong = 0
         /\ heap[id].num = 5
    /\ At(FnCycle, 308, "upgrade") =>
         /\ ~heap[id].live
         /\ Lookup(Top, "weak_fails") = H("weak", id)
         /\ heap[id].weak = 1

\* C8: Rc::downgrade leaves the strong count as it is and raises the weak
\* count by 1; a successful upgrade raises the strong count by 1 for as long
\* as its result lives.  In reference_cycles_can_leak_memory the counts of
\* pointer are strong 1, weak 2 after the two downgrades; strong is 2
\* exactly while the result of weak_exists.upgrade() lives and 1 again after
\* that statement; the value 5 is destroyed at the end of the inner block
\* although weak_fails is still held.
C8_WeakDoesNotOwn == [][C8_WeakStep]_vars /\ []C8_WeakPoints

C8_Witness ==
  /\ At(FnCycle, 308, "upgrade")
  /\ \E id \in Pointers : ~heap[id].live /\ heap[id].weak = 1

(***************************************************************************)
(* C9                                                                      *)
(***************************************************************************)
Squares == ObjsOf(FnDrop, "Square")

\* C9: drop(square_three) runs the callback once, between "Before
\* square_three dropped" and "After square_three dropped", and not again at
\* the function's end: from then on the callback has run three times, once
\* for each Square created.
C9_ExplicitDropOnce ==
  /\ Cardinality(LinesOf("Square {:?} dropped")) <= 3
  /\ \A id \in Squares : heap[id].drops <= 1
  /\ HasLine("After square_three dropped") =>
       /\ SubSeq(out, FirstLine("Before square_three dropped"),
                      FirstLine("Before square_three dropped") + 2) =
            << Line("Before square_three dropped", <<>>),
               DropLine("2"),
               Line("After square_three dropped", <<>>) >>
       /\ Cardinality(LinesOf("Square {:?} dropped")) = 3
       /\ Cardinality(Squares) = 3
       /\ \A id \in Squares : heap[id].drops = 1
       /\ LastLine("Square {:?} dropped") < FirstLine("After square_three dropped")

C9_Witness ==
  /\ status = "exited"
  /\ Cardinality(LinesOf("Square {:?} dropped")) = 3
  /\ out[FirstLine("Before square_three dropped") + 1] = DropLine("2")

(***************************************************************************)
(* C10                                                                     *)
(***************************************************************************)
Items == {id \in ObjsOf(FnRefCell, "String") : heap[id].alloc = "rc"}

\* C10: my_item, ref_two and ref_three are handles on one string (a clone
\* copies no value); the string prints as "Hello world" before any change,
\* "Hello worl" through my_item after the pop through ref_two and
\* "Hello wor" through my_item after the pop through ref_three.
\* Hello::print, called once, prints "ab" and leaves its cell holding "ab".
C10_SharedMutation ==
  /\ Cardinality(Items) <= 1
  /\ \A p \in AllBindings :
       NameAt(p) \in {"my_item", "ref_two", "ref_three"} =>
         HandleAt(p).k = "rc" /\ HandleAt(p).id \in Items
  /\ \A i \in LinesOf("No changes: {}") : out[i].args = <<StrHelloWorld>>
  /\ Cardinality(LinesOf("popped: {}")) <= 2
  /\ HasLine("popped: {}") =>
       out[FirstLine("popped: {}")].args =
         << <<"H","e","l","l","o"," ","w","o","r","l">> >>
  /\ Cardinality(LinesOf("popped: {}")) = 2 =>
       out[LastLine("popped: {}")].args =
         << <<"H","e","l","l","o"," ","w","o","r">> >>
  /\ Cardinality(LinesOf("string: {}")) <= 1
  /\ \A i \in LinesOf("string: {}") : out[i].args = << <<"a", "b">> >>
  /\ At(FnRefCell, 238, "rc_new") =>
       /\ HasLine("string: {}")
       /\ heap[Lookup(Top, "hello").id].str = <<"a", "b">>
  /\ status = "exited" =>
       /\ HasLine("No changes: {}")
       /\ Cardinality(LinesOf("popped: {}")) = 2

C10_Witness ==
  /\ status = "exited"
  /\ Cardinality(LinesOf("popped: {}")) = 2
  /\ out[LastLine("popped: {}")].args = << <<"H","e","l","l","o"," ","w","o","r">> >>

====
